---- MODULE Spec2Model ----
(***************************************************************************)
(* Model of bolt's manifest-mutating commands:                             *)
(*   src/src/commands/version.js  (version)                                *)
(*   src/src/utils/publish.js     (publish, getUnpublishedPackages,        *)
(*                                 setTaggedDependencies,                  *)
(*                                 setTypingDependencies)                  *)
(* One process runs one command on a workspace whose files an earlier run  *)
(* may have left behind.  Every `await` of the code is a                   *)
(* suspension point: the awaited file-system or subprocess operation takes *)
(* effect in one step, the code after the await runs in a later step, and  *)
(* the process may exit (signal, process.exit, normal end) in between.     *)
(***************************************************************************)
EXTENDS Integers, Sequences, FiniteSets, TLC

\* ---------------------------------------------------------------- bounds
NumPkgs == 2

Pkgs == 1..NumPkgs

\* ------------------------------------------------------- file contents
NoFile == [kind |-> "NoFile"]      \* the path does not exist
Partial == [kind |-> "Partial"]    \* a manifest a failed write left truncated
NoConfig == [kind |-> "NoConfig"]  \* the package was not loaded by this process

\* package names are token sequences, so that startsWith and split can be
\* computed on them
NameX == <<"x">>
NameTypedScoped == <<"@", "flowtyped", "/", "s", "__", "y">>
NameTyped == <<"@", "flowtyped", "/", "y">>

NoDeps == [n \in {} |-> "none"]

\* the kinds of package a workspace is drawn from: name, flowVersion, and
\* whether it depends on the other packages of the workspace
Kinds ==
  << [name |-> NameX, flowVersion |-> "none", linked |-> FALSE],
     [name |-> NameX, flowVersion |-> ">=0.80", linked |-> TRUE],
     [name |-> NameTypedScoped, flowVersion |-> "all", linked |-> TRUE],
     [name |-> NameTyped, flowVersion |-> "none", linked |-> FALSE] >>

InitialVersion == <<1, 2, 3>>

\* versions the registry may report for a published package
RegistryVersions == {<<1, 2, 2>>, <<1, 2, 3>>, <<1, 3, 0>>}
\* npm.infoAllow404: {published, pkgInfo.version || ''}
NotPublished == [published |-> FALSE, version |-> <<>>]
Responses ==
  {NotPublished} \cup {[published |-> TRUE, version |-> v] : v \in RegistryVersions}
NoInfo == [kind |-> "NoInfo"]

\* ------------------------------------------- how a command's promise ends
Pending == [kind |-> "pending", type |-> "", message |-> "", value |-> <<>>]
Resolved(value) ==
  [kind |-> "resolved", type |-> "", message |-> "", value |-> value]
\* a rejection with a plain Error of the failing operation
Error(message) ==
  [kind |-> "rejected", type |-> "Error", message |-> message, value |-> <<>>]
\* new BoltError(message)
BoltError(message) ==
  [kind |-> "rejected", type |-> "BoltError", message |-> message,
   value |-> <<>>]

\* the errors the operations awaited by a command reject with
RegistryError == Error("npm info")
TaskErrors(command) ==
  IF command = "publish"
    THEN {Error("prePublish"), Error("rename"),
          Error("setDependencyVersionRange"), Error("npm publish"),
          Error("renameSync")}
    ELSE {Error("rename"), Error("config.write")}

\* publish.js 201-203: catch (err) { logger.error(err.message);
\* throw new BoltError('Failed to publish') }
CaughtRethrown(err) == err

Caught(err) == BoltError("Failed to publish")

VARIABLES
  manifest,           \* manifest[p]: content of pkg.filePath on disk
  backup,             \* backup[p]: content of pkg.filePath + '.bolt_backup'
  phase,              \* position of the command: idle (not started), query,
                      \* classified, tasks, ok, failed, exited
  cmd,                \* "none", "version" or "publish"
  config,             \* config[p]: pkg.config of the running process
  publicPackages,     \* the command's publicPackages
  info,               \* results of getUnpublishedPackages (registry answers)
  toPublish,          \* primary keys of packagesToPublish
  tasks,              \* the packages handed to runPackageTasks
  pc,                 \* pc[p]: the await the task of p is suspended at
  linkIdx,            \* linkIdx[p]: position of setTaggedDependencies' loop
  handlers,           \* signal-exit's listeners, in order of registration
  publishedPackages,  \* publish's result list
  npmCalls,           \* packages npm.publish was invoked for by this process
  log,                \* lines the process logged: <<level, message, pkg>>
  orig,               \* history: manifest of p when this process renamed it
  atExit,             \* history: where each task was when the process exited
  outcome,            \* what the command's (or yarn wrapper's) promise
                      \* settled with
  call,               \* the yarn wrapper called and its arguments
  at,                 \* the await the yarn wrapper is suspended at
  spawned             \* the subprocesses the wrapper spawned, in order

vars == <<manifest, backup, phase, cmd, config, publicPackages, info,
          toPublish, tasks, pc, linkIdx, handlers, publishedPackages,
          npmCalls, log, orig, atExit, outcome, call, at, spawned>>

yarnVars == <<call, at, spawned>>

\* ------------------------------------------------------------- helpers
Range(s) == {s[i] : i \in 1..Len(s)}

IsManifest(c) == c \notin {NoFile, Partial}

\* packages the process loaded (Project.getPackages)
Loaded == {p \in Pkgs : config[p] # NoConfig}

\* ------------------------------------------------------------- semver
\* semver.parse / SemVer.format / toString on plain M.m.p versions
SemverParse(v) == [major |-> v[1], minor |-> v[2], patch |-> v[3]]
SemverFormat(s) == <<s.major, s.minor, s.patch>>

SemverGt(a, b) ==
  \/ a[1] > b[1]
  \/ a[1] = b[1] /\ a[2] > b[2]
  \/ a[1] = b[1] /\ a[2] = b[2] /\ a[3] > b[3]

SemverLt(a, b) == SemverGt(b, a)

\* version.js 58-60, 64: parse, patch += size, format, toString
BumpedVersionPlusOne(version, size) ==
  SemverFormat([SemverParse(version) EXCEPT !.patch = @ + 1])

BumpedVersion(version, size) ==
  SemverFormat([SemverParse(version) EXCEPT !.patch = @ + size])

\* packagesByName.get(name).length over all loaded packages
Size(p) == Cardinality({q \in Loaded : config[q].name = config[p].name})

\* ------------------------------------------------------------------ Init
InitManifest(k, priv, p, kindOf) ==
  [ name |-> Kinds[k].name,
    version |-> InitialVersion,
    private |-> priv,
    flowVersion |-> Kinds[k].flowVersion,
    dependencies |->
      IF Kinds[k].linked
        THEN [n \in {Kinds[kindOf[q]].name : q \in Pkgs \ {p}} |-> "^1.0.0"]
        ELSE NoDeps,
    peerDependencies |-> NoDeps ]

\* the backup an earlier, successful `bolt version` left behind (version.js
\* 67 never removes it): the manifest as it was before that bump
StaleBackup(p, kindOf) ==
  LET size == Cardinality({q \in Pkgs :
                             Kinds[kindOf[q]].name = Kinds[kindOf[p]].name})
  IN  [InitManifest(kindOf[p], FALSE, p, kindOf)
         EXCEPT !.version = <<InitialVersion[1], InitialVersion[2],
                              InitialVersion[3] - size>>]

\* no yarn wrapper has been called
NoCall == [fn |-> "none"]
YarnIdle ==
  /\ call = NoCall
  /\ at = "idle"
  /\ spawned = <<>>

\* the files of the workspace
Workspace(kindOf, variant) ==
  /\ manifest = [p \in Pkgs |->
                   InitManifest(kindOf[p], p = 1 /\ variant = "private",
                                p, kindOf)]
  /\ backup = [p \in Pkgs |->
                 IF variant = "stale" THEN StaleBackup(p, kindOf)
                                      ELSE NoFile]

\* the process has not started a command
ProcessIdle ==
  /\ phase = "idle"
  /\ cmd = "none"
  /\ config = [p \in Pkgs |-> NoConfig]
  /\ publicPackages = {}
  /\ info = [p \in Pkgs |-> NoInfo]
  /\ toPublish = {}
  /\ tasks = {}
  /\ pc = [p \in Pkgs |-> "none"]
  /\ linkIdx = [p \in Pkgs |-> 0]
  /\ handlers = <<>>
  /\ publishedPackages = <<>>
  /\ npmCalls = {}
  /\ log = {}
  /\ orig = [p \in Pkgs |-> NoFile]
  /\ atExit = [p \in Pkgs |-> "none"]
  /\ outcome = Pending

Init ==
  /\ \E kindOf \in [Pkgs -> 1..Len(Kinds)],
        variant \in {"plain", "private", "stale"} :
       /\ \A p \in Pkgs : p < NumPkgs => kindOf[p] <= kindOf[p + 1]
       /\ Workspace(kindOf, variant)
  /\ ProcessIdle
  /\ YarnIdle

\* ------------------------------------------------ process-wide exit hooks
\* the restore action `cleanup`: fs.renameSync(pkgBackup, pkg.filePath).
\* rename replaces an existing destination; it throws when the source is
\* missing, which the result reports in `threw`.
RestoreKeepsBackup(m, b, p) ==
  IF b[p] = NoFile
    THEN [manifest |-> m, backup |-> b, threw |-> TRUE]
    ELSE [manifest |-> [m EXCEPT ![p] = b[p]], backup |-> b, threw |-> FALSE]

CleanupDropsBackup(m, b, p) ==
  IF b[p] = NoFile
    THEN [manifest |-> m, backup |-> b, threw |-> TRUE]
    ELSE [manifest |-> m, backup |-> [b EXCEPT ![p] = NoFile],
          threw |-> FALSE]

Cleanup(m, b, p) ==
  IF b[p] = NoFile
    THEN [manifest |-> m, backup |-> b, threw |-> TRUE]
    ELSE [manifest |-> [m EXCEPT ![p] = b[p]],
          backup |-> [b EXCEPT ![p] = NoFile],
          threw |-> FALSE]

\* signal-exit at process exit: every registered listener is called, in
\* order of registration; a listener that throws ends the emit.
RECURSIVE RunAll(_, _, _)
RunAll(hs, m, b) ==
  IF hs = <<>>
    THEN [manifest |-> m, backup |-> b]
    ELSE LET r == Cleanup(m, b, Head(hs))
         IN  IF r.threw
               THEN [manifest |-> m, backup |-> b]
               ELSE RunAll(Tail(hs), r.manifest, r.backup)

OnExitLastOnly(hs, m, b) ==
  IF hs = <<>>
    THEN [manifest |-> m, backup |-> b]
    ELSE RunAll(<<hs[Len(hs)]>>, m, b)

OnExit(hs, m, b) == RunAll(hs, m, b)

\* an unregister that leaves the listener in place
UnregisteredNoOp(hs, p) == hs

Unregistered(hs, p) == SelectSeq(hs, LAMBDA q : q # p)

\* --------------------------------------------------------- process start
\* Project.init / project.getPackages: every manifest on disk is loaded
LoadedConfig == [p \in Pkgs |-> IF IsManifest(manifest[p]) THEN manifest[p]
                                                           ELSE NoConfig]

\* the filter without the test of getPrivate()
PublicOfAll(cfg) == {p \in Pkgs : cfg[p] # NoConfig}

PublicOf(cfg) == {p \in Pkgs : cfg[p] # NoConfig /\ ~cfg[p].private}

StartProcess(command) ==
  /\ phase = "idle"
  /\ cmd' = command
  /\ config' = LoadedConfig
  /\ UNCHANGED <<manifest, backup, handlers, linkIdx, publishedPackages,
                 npmCalls, log, info, toPublish, orig, atExit,
                 outcome>>
  /\ UNCHANGED yarnVars

\* version.js 29-44: the filtered public packages (or the single package of
\* cwd) are handed to runPackageTasks
StartVersion ==
  /\ StartProcess("version")
  /\ \E selected \in SUBSET PublicOf(LoadedConfig) :
       /\ publicPackages' = selected
       /\ tasks' = selected
       /\ pc' = [p \in Pkgs |-> IF p \in selected THEN "start" ELSE "none"]
  /\ phase' = "tasks"

\* ------------------------------------------------- per-package operation
\* await fs.rename(pkg.filePath, pkgBackup): the rename has happened on
\* disk, the code after the await has not run yet
Rename(p) ==
  /\ phase = "tasks"
  /\ pc[p] = "start"
  /\ manifest' = [manifest EXCEPT ![p] = NoFile]
  /\ backup' = [backup EXCEPT ![p] = manifest[p]]
  /\ orig' = [orig EXCEPT ![p] = manifest[p]]
  /\ pc' = [pc EXCEPT ![p] = "renamed"]
  /\ UNCHANGED <<phase, cmd, config, publicPackages, info, toPublish,
                 tasks, linkIdx, handlers, publishedPackages, npmCalls, log,
                 atExit,
                 outcome>>
  /\ UNCHANGED yarnVars

\* fs.rename rejects (an I/O error): nothing was renamed
RenameFail(p) ==
  /\ phase = "tasks"
  /\ pc[p] = "start"
  /\ pc' = [pc EXCEPT ![p] = "failed"]
  /\ UNCHANGED <<manifest, backup, phase, cmd, config, publicPackages,
                 info, toPublish, tasks, linkIdx, handlers,
                 publishedPackages, npmCalls, log, orig, atExit,
                 outcome>>
  /\ UNCHANGED yarnVars

\* version.js 53-65: onExit(cleanup), the bump, the call of config.write
RegisterVersion(p) ==
  /\ cmd = "version"
  /\ phase = "tasks"
  /\ pc[p] = "renamed"
  /\ handlers' = Append(handlers, p)
  /\ pc' = [pc EXCEPT ![p] = "writing"]
  /\ UNCHANGED <<manifest, backup, phase, cmd, config, publicPackages,
                 info, toPublish, tasks, linkIdx, publishedPackages,
                 npmCalls, log, orig, atExit,
                 outcome>>
  /\ UNCHANGED yarnVars

\* the json version.js 62-65 passes to pkg.config.write
VersionJson(p) ==
  [config[p] EXCEPT !.version = BumpedVersion(config[p].version, Size(p))]

\* a bump that also rewrites the range of p in the packages depending on it
WriteOkUpdatesDependents(p) ==
  /\ cmd = "version"
  /\ phase = "tasks"
  /\ pc[p] = "writing"
  /\ manifest' =
       [q \in Pkgs |->
          IF q = p THEN VersionJson(p)
          ELSE IF IsManifest(manifest[q]) /\
                  config[p].name \in DOMAIN manifest[q].dependencies
            THEN [manifest[q] EXCEPT
                    !.dependencies = (config[p].name :> "^bumped") @@ @]
            ELSE manifest[q]]
  /\ config' = [config EXCEPT ![p] = VersionJson(p)]
  /\ pc' = [pc EXCEPT ![p] = "written"]
  /\ UNCHANGED <<backup, phase, cmd, publicPackages, info, toPublish,
                 tasks, linkIdx, handlers, publishedPackages, npmCalls, log,
                 orig, atExit, outcome>>
  /\ UNCHANGED yarnVars

\* pkg.config.write resolves: the manifest path holds the new document
WriteOk(p) ==
  /\ cmd = "version"
  /\ phase = "tasks"
  /\ pc[p] = "writing"
  /\ manifest' = [manifest EXCEPT ![p] = VersionJson(p)]
  /\ config' = [config EXCEPT ![p] = VersionJson(p)]
  /\ pc' = [pc EXCEPT ![p] = "written"]
  /\ UNCHANGED <<backup, phase, cmd, publicPackages, info, toPublish,
                 tasks, linkIdx, handlers, publishedPackages, npmCalls, log,
                 orig, atExit,
                 outcome>>
  /\ UNCHANGED yarnVars

\* pkg.config.write rejects: the file was not created, or is truncated
WriteFail(p) ==
  /\ cmd = "version"
  /\ phase = "tasks"
  /\ pc[p] = "writing"
  /\ \E left \in {manifest[p], Partial} :
       manifest' = [manifest EXCEPT ![p] = left]
  /\ pc' = [pc EXCEPT ![p] = "failed"]
  /\ UNCHANGED <<backup, phase, cmd, config, publicPackages, info,
                 toPublish, tasks, linkIdx, handlers, publishedPackages,
                 npmCalls, log, orig, atExit,
                 outcome>>
  /\ UNCHANGED yarnVars

\* version.js 67: unregister()
Unregister(p) ==
  /\ cmd = "version"
  /\ phase = "tasks"
  /\ pc[p] = "written"
  /\ handlers' = Unregistered(handlers, p)
  /\ pc' = [pc EXCEPT ![p] = "done"]
  /\ UNCHANGED <<manifest, backup, phase, cmd, config, publicPackages,
                 info, toPublish, tasks, linkIdx, publishedPackages,
                 npmCalls, log, orig, atExit,
                 outcome>>
  /\ UNCHANGED yarnVars

\* ------------------------------------------------------------- publish
\* publish.js 124-145: the public packages (all of them, or the single
\* package of cwd) are queried on the registry
StartPublish ==
  /\ StartProcess("publish")
  /\ \E candidates \in {PublicOf(LoadedConfig)} \cup
        {{p} \cap PublicOf(LoadedConfig) :
           p \in {q \in Pkgs : LoadedConfig[q] # NoConfig}} :
       publicPackages' = candidates
  /\ phase' = "query"
  /\ UNCHANGED <<tasks, pc>>

\* getUnpublishedPackages 47-66: the packages to publish
PackagesToPublishNoGt(cands, inf) ==
  {p \in cands : ~inf[p].published}

PackagesToPublish(cands, inf) ==
  {p \in cands :
     \/ ~inf[p].published
     \/ inf[p].published /\ SemverGt(config[p].version, inf[p].version)}

\* getUnpublishedPackages 55-62: what it logs
ClassifyLog(cands, inf) ==
  {<<"info", "willPublishPackage", p>> :
     p \in {q \in cands : inf[q].published
                          /\ SemverGt(config[q].version, inf[q].version)}}
  \cup
  {<<"warn", "willNotPublishPackage", p>> :
     p \in {q \in cands : inf[q].published
                          /\ ~SemverGt(config[q].version, inf[q].version)
                          /\ SemverLt(config[q].version, inf[q].version)}}

\* getUnpublishedPackages 32-66: the registry answers (by package name) and
\* the candidates are classified
GetUnpublishedPackages ==
  /\ phase = "query"
  /\ \E answer \in [{config[p].name : p \in publicPackages} -> Responses] :
       LET inf == [p \in Pkgs |-> IF p \in publicPackages
                                    THEN answer[config[p].name] ELSE NoInfo]
       IN  /\ info' = inf
           /\ toPublish' = PackagesToPublish(publicPackages, inf)
           /\ log' = log \cup ClassifyLog(publicPackages, inf)
  /\ phase' = "classified"
  /\ UNCHANGED <<manifest, backup, cmd, config, publicPackages, tasks,
                 pc, linkIdx, handlers, publishedPackages, npmCalls, orig,
                 atExit,
                 outcome>>
  /\ UNCHANGED yarnVars

\* npm.infoAllow404 rejects (a registry error other than 404): the catch of
\* publish.js 201-203 logs and throws BoltError
QueryFail ==
  /\ phase = "query"
  /\ phase' = "failed"
  /\ log' = log \cup {<<"error", "Failed to publish", 0>>}
  /\ outcome' = Caught(RegistryError)
  /\ UNCHANGED <<manifest, backup, cmd, config, publicPackages, info,
                 toPublish, tasks, pc, linkIdx, handlers, publishedPackages,
                 npmCalls, orig, atExit>>
  /\ UNCHANGED yarnVars

\* publish.js 146-150: publicPackages filtered by the primary keys of
\* unpublishedPackagesInfo
UnpublishedPackagesUnfiltered(cands, keys) == cands

UnpublishedPackages(cands, keys) == {p \in cands : p \in keys}

\* publish.js 146-156: the unpublished packages go to runPackageTasks
Launch ==
  /\ phase = "classified"
  /\ LET unpublishedPackages == UnpublishedPackages(publicPackages, toPublish)
     IN  /\ tasks' = unpublishedPackages
         /\ pc' = [p \in Pkgs |-> IF p \in unpublishedPackages THEN "start"
                                                               ELSE "none"]
  /\ log' = IF toPublish = {}
              THEN log \cup {<<"warn", "noUnpublishedPackagesToPublish", 0>>}
              ELSE log
  /\ info' = [p \in Pkgs |-> NoInfo]
  /\ phase' = "tasks"
  /\ UNCHANGED <<manifest, backup, cmd, config, publicPackages,
                 toPublish, linkIdx, handlers, publishedPackages, npmCalls,
                 orig, atExit,
                 outcome>>
  /\ UNCHANGED yarnVars

\* opts.prePublish rejects, before anything was renamed
PrePublishFail(p) ==
  /\ cmd = "publish"
  /\ phase = "tasks"
  /\ pc[p] = "start"
  /\ pc' = [pc EXCEPT ![p] = "failed"]
  /\ UNCHANGED <<manifest, backup, phase, cmd, config, publicPackages,
                 info, toPublish, tasks, linkIdx, handlers,
                 publishedPackages, npmCalls, log, orig, atExit,
                 outcome>>
  /\ UNCHANGED yarnVars

\* the names a package depends on (the union of its dependency maps)
DepNames(c) == DOMAIN c.dependencies \cup DOMAIN c.peerDependencies

Declarers(n) == {q \in Loaded : config[q].name = n}

\* paths.get(pkg.filePath): the internal links of p, one per dependency name
\* that a loaded package declares, in a fixed order
NameOrder == <<NameX, NameTypedScoped, NameTyped>>
Links(p) ==
  SelectSeq(NameOrder,
            LAMBDA n : n \in DepNames(config[p]) /\ Declarers(n) # {})

\* String.prototype.startsWith('@flowtyped') on the token sequence
StartsWithFlowtyped(name) ==
  Len(name) >= 2 /\ name[1] = "@" /\ name[2] = "flowtyped"

\* packageName.split('/')[1]: the tokens between the first and second '/'
RECURSIVE UpTo(_, _)
UpTo(s, sep) ==
  IF s = <<>> \/ Head(s) = sep THEN <<>> ELSE <<Head(s)>> \o UpTo(Tail(s), sep)

RECURSIVE After(_, _)
After(s, sep) ==
  IF s = <<>> THEN <<>>
  ELSE IF Head(s) = sep THEN Tail(s) ELSE After(Tail(s), sep)

\* setTypingDependencies 90-97: selfName, <<>> when it stays undefined
SelfName(packageName) ==
  IF StartsWithFlowtyped(packageName)
    THEN LET part == UpTo(After(packageName, "/"), "/")
             nameOrScope == UpTo(part, "__")
             name == UpTo(After(part, "__"), "__")
         IN  IF name # <<>> THEN <<"@">> \o nameOrScope \o <<"/">> \o name
                            ELSE nameOrScope
    ELSE <<>>

\* setTypingDependencies 88: `^${semver.major(version)}.x`
SelfVersion(version) == <<"^", SemverParse(version).major, ".x">>

\* setTypingDependencies 99-105: flowBinVersion, <<>> when it stays undefined
FlowBinVersion(flowVersion) ==
  IF flowVersion = "none" THEN <<>>
  ELSE IF flowVersion = "all" THEN <<"latest">>
  ELSE <<"toSemverString", flowVersion>>

\* the await a publish task reaches once its tagged dependencies are set:
\* setTypingDependencies 107-118, then npm.publish
AwaitAfterTaggingSkipsTyping(p) == "npm"

AwaitAfterTagging(p) ==
  IF FlowBinVersion(config[p].flowVersion) # <<>> THEN "flowbin"
  ELSE IF SelfName(config[p].name) # <<>> THEN "self"
  ELSE "npm"

AwaitAfterFlowBin(p) ==
  IF SelfName(config[p].name) # <<>> THEN "self" ELSE "npm"

\* publish.js 174-178: onExit(cleanup), then the first pending await
RegisterPublish(p) ==
  /\ cmd = "publish"
  /\ phase = "tasks"
  /\ pc[p] = "renamed"
  /\ handlers' = Append(handlers, p)
  /\ LET to == IF Links(p) # <<>> THEN "tag" ELSE AwaitAfterTagging(p)
     IN  /\ pc' = [pc EXCEPT ![p] = to]
         /\ npmCalls' = IF to = "npm" THEN npmCalls \cup {p} ELSE npmCalls
  /\ linkIdx' = [linkIdx EXCEPT ![p] = 1]
  /\ UNCHANGED <<manifest, backup, phase, cmd, config, publicPackages,
                 info, toPublish, tasks, publishedPackages, log, orig,
                 atExit,
                 outcome>>
  /\ UNCHANGED yarnVars

SetRange(c, depType, depName, range) ==
  IF depType = "dependencies"
    THEN [c EXCEPT !.dependencies = (depName :> range) @@ @]
    ELSE [c EXCEPT !.peerDependencies = (depName :> range) @@ @]

\* pkg.setDependencyVersionRange resolves for the link the loop is at
\* (setTaggedDependencies 73-79): the manifest path holds the new document
TagWritten(p) ==
  /\ cmd = "publish"
  /\ phase = "tasks"
  /\ pc[p] = "tag"
  /\ \E dep \in Declarers(Links(p)[linkIdx[p]]) :
       LET c == SetRange(config[p], "dependencies", config[dep].name,
                         <<config[dep].flowVersion>>)
       IN  /\ config' = [config EXCEPT ![p] = c]
           /\ manifest' = [manifest EXCEPT ![p] = c]
  /\ LET to == IF linkIdx[p] < Len(Links(p)) THEN "tag"
                                             ELSE AwaitAfterTagging(p)
     IN  /\ pc' = [pc EXCEPT ![p] = to]
         /\ npmCalls' = IF to = "npm" THEN npmCalls \cup {p} ELSE npmCalls
  /\ linkIdx' = [linkIdx EXCEPT ![p] = @ + 1]
  /\ UNCHANGED <<backup, phase, cmd, publicPackages, info, toPublish,
                 tasks, handlers, publishedPackages, log, orig, atExit,
                 outcome>>
  /\ UNCHANGED yarnVars

\* setTypingDependencies 107-112 resolves: peerDependencies['flow-bin']
FlowBinWritten(p) ==
  /\ cmd = "publish"
  /\ phase = "tasks"
  /\ pc[p] = "flowbin"
  /\ LET c == SetRange(config[p], "peerDependencies", <<"flow-bin">>,
                       FlowBinVersion(config[p].flowVersion))
     IN  /\ config' = [config EXCEPT ![p] = c]
         /\ manifest' = [manifest EXCEPT ![p] = c]
  /\ LET to == AwaitAfterFlowBin(p)
     IN  /\ pc' = [pc EXCEPT ![p] = to]
         /\ npmCalls' = IF to = "npm" THEN npmCalls \cup {p} ELSE npmCalls
  /\ UNCHANGED <<backup, phase, cmd, publicPackages, info, toPublish,
                 tasks, linkIdx, handlers, publishedPackages, log, orig,
                 atExit,
                 outcome>>
  /\ UNCHANGED yarnVars

\* setTypingDependencies 113-118 resolves: peerDependencies[selfName], then
\* npm.publish is called (publish.js 181)
SelfWritten(p) ==
  /\ cmd = "publish"
  /\ phase = "tasks"
  /\ pc[p] = "self"
  /\ LET c == SetRange(config[p], "peerDependencies",
                       SelfName(config[p].name),
                       SelfVersion(config[p].version))
     IN  /\ config' = [config EXCEPT ![p] = c]
         /\ manifest' = [manifest EXCEPT ![p] = c]
  /\ pc' = [pc EXCEPT ![p] = "npm"]
  /\ npmCalls' = npmCalls \cup {p}
  /\ UNCHANGED <<backup, phase, cmd, publicPackages, info, toPublish,
                 tasks, linkIdx, handlers, publishedPackages, log, orig,
                 atExit,
                 outcome>>
  /\ UNCHANGED yarnVars

\* pkg.setDependencyVersionRange rejects: the manifest path is as the
\* previous step left it, or truncated
SetDependencyFail(p) ==
  /\ cmd = "publish"
  /\ phase = "tasks"
  /\ pc[p] \in {"tag", "flowbin", "self"}
  /\ \E left \in {manifest[p], Partial} :
       manifest' = [manifest EXCEPT ![p] = left]
  /\ pc' = [pc EXCEPT ![p] = "failed"]
  /\ UNCHANGED <<backup, phase, cmd, config, publicPackages, info,
                 toPublish, tasks, linkIdx, handlers, publishedPackages,
                 npmCalls, log, orig, atExit,
                 outcome>>
  /\ UNCHANGED yarnVars

\* publish.js 181-194: npm.publish resolves, the result is recorded,
\* cleanup() and unregister() run
NpmPublishReturns(p) ==
  /\ cmd = "publish"
  /\ phase = "tasks"
  /\ pc[p] = "npm"
  /\ \E published \in BOOLEAN :
       publishedPackages' =
         Append(publishedPackages,
                [name |-> config[p].name, newVersion |-> config[p].version,
                 published |-> published])
  /\ LET r == Cleanup(manifest, backup, p)
     IN  /\ manifest' = r.manifest
         /\ backup' = r.backup
         /\ handlers' = IF r.threw THEN handlers
                                   ELSE Unregistered(handlers, p)
         /\ pc' = [pc EXCEPT ![p] = IF r.threw THEN "failed" ELSE "done"]
  /\ UNCHANGED <<phase, cmd, config, publicPackages, info, toPublish,
                 tasks, linkIdx, npmCalls, log, orig, atExit,
                 outcome>>
  /\ UNCHANGED yarnVars

\* npm.publish rejects
NpmPublishFail(p) ==
  /\ cmd = "publish"
  /\ phase = "tasks"
  /\ pc[p] = "npm"
  /\ pc' = [pc EXCEPT ![p] = "failed"]
  /\ UNCHANGED <<manifest, backup, phase, cmd, config, publicPackages,
                 info, toPublish, tasks, linkIdx, handlers,
                 publishedPackages, npmCalls, log, orig, atExit,
                 outcome>>
  /\ UNCHANGED yarnVars

\* ------------------------------------------------------- end of command
\* a fail-fast runner: settles as soon as one task has failed
SettledFailFast ==
  \/ \E p \in tasks : pc[p] = "failed"
  \/ \A p \in tasks : pc[p] = "done"

Settled == \A p \in tasks : pc[p] \in {"done", "failed"}
AnyFailed == \E p \in tasks : pc[p] = "failed"

\* runPackageTasks settles: the command returns, or rejects if a task failed
\* (publish.js 201-203 logs the error and throws BoltError)
Settle ==
  /\ phase = "tasks"
  /\ Settled
  /\ phase' = IF AnyFailed THEN "failed" ELSE "ok"
  /\ log' = IF AnyFailed /\ cmd = "publish"
              THEN log \cup {<<"error", "Failed to publish", 0>>}
              ELSE log
  /\ \E err \in TaskErrors(cmd) :
       outcome' = IF AnyFailed
                    THEN IF cmd = "publish" THEN Caught(err) ELSE err
                    ELSE IF cmd = "publish" THEN Resolved(publishedPackages)
                                            ELSE Resolved(<<>>)
  /\ UNCHANGED <<manifest, backup, cmd, config, publicPackages, info,
                 toPublish, tasks, pc, linkIdx, handlers, publishedPackages,
                 npmCalls, orig, atExit>>
  /\ UNCHANGED yarnVars

\* the process ends (signal, process.exit, or the event loop running dry):
\* signal-exit calls the registered listeners
Exit ==
  /\ phase \notin {"idle", "exited"}
  /\ LET r == OnExit(handlers, manifest, backup)
     IN  /\ manifest' = r.manifest
         /\ backup' = r.backup
  /\ atExit' = [p \in Pkgs |-> IF p \in Range(handlers) THEN "guarded"
                                                        ELSE pc[p]]
  /\ phase' = "exited"
  /\ config' = [p \in Pkgs |-> NoConfig]
  /\ publicPackages' = {}
  /\ info' = [p \in Pkgs |-> NoInfo]
  /\ toPublish' = {}
  /\ tasks' = {}
  /\ pc' = [p \in Pkgs |-> "none"]
  /\ linkIdx' = [p \in Pkgs |-> 0]
  /\ handlers' = <<>>
  /\ publishedPackages' = <<>>
  /\ npmCalls' = {}
  /\ log' = {}
  /\ outcome' = Pending
  /\ UNCHANGED <<cmd, orig>>
  /\ UNCHANGED yarnVars

Next ==
  \/ StartVersion
  \/ \E p \in Pkgs : Rename(p)
  \/ \E p \in Pkgs : RenameFail(p)
  \/ \E p \in Pkgs : RegisterVersion(p)
  \/ \E p \in Pkgs : WriteOk(p)
  \/ \E p \in Pkgs : WriteFail(p)
  \/ \E p \in Pkgs : Unregister(p)
  \/ StartPublish
  \/ GetUnpublishedPackages
  \/ QueryFail
  \/ Launch
  \/ \E p \in Pkgs : PrePublishFail(p)
  \/ \E p \in Pkgs : RegisterPublish(p)
  \/ \E p \in Pkgs : TagWritten(p)
  \/ \E p \in Pkgs : FlowBinWritten(p)
  \/ \E p \in Pkgs : SelfWritten(p)
  \/ \E p \in Pkgs : SetDependencyFail(p)
  \/ \E p \in Pkgs : NpmPublishReturns(p)
  \/ \E p \in Pkgs : NpmPublishFail(p)
  \/ Settle
  \/ Exit

Spec == Init /\ [][Next]_vars

\* ================================================================ yarn.js
\* The wrappers of src/src/utils/yarn.js.  One wrapper is called; each of
\* its awaits (projectBinPath, Project.init, readdirSafe, processes.spawn)
\* is a suspension point that ends by resolving or rejecting.

\* the bolt variables a yarn wrapper does not touch
processVars == <<manifest, backup, phase, cmd, config, publicPackages, info,
                 toPublish, tasks, pc, linkIdx, handlers, publishedPackages,
                 npmCalls, log, orig, atExit>>

\* longest list of dependencies passed to add, upgrade and globalCli
MaxDeps == 1

\* JavaScript values of getScript: null, or a string
Null == [kind |-> "null", value |-> ""]
Str(s) == [kind |-> "string", value |-> s]
Truthy(v) == v # Null /\ v.value # ""

ScriptNames == {"build", "lint"}
ScriptEntries == {"", "cmd"}
\* pkg.config.getScripts(): undefined, or a map from names to entries
NoScripts == [defined |-> FALSE, entries |-> [n \in {} |-> ""]]
Scripts ==
  {NoScripts} \cup
  {[defined |-> TRUE, entries |-> e] :
     e \in UNION {[d -> ScriptEntries] : d \in SUBSET ScriptNames}}

\* command-line arguments are token sequences, so that `${name}@${version}`
\* is computed on them
DepChoices ==
  {[name |-> "a", version |-> ""], [name |-> "a", version |-> "1.0.0"]}
DepLists == UNION {[1..n -> DepChoices] : n \in 0..MaxDeps}
ArgLists == {<<>>, << <<"--flag">> >>}
DepTypes == {"none", "devDependencies", "bogus"}
Stdouts == {<<"yarn/1.22">>, <<"yarn/1.22", "\n">>}

BaseCall(fn) ==
  [fn |-> fn, pureLockfile |-> FALSE, deps |-> <<>>, type |-> "none",
   script |-> "build", args |-> <<>>, scripts |-> NoScripts, bins |-> {},
   command |-> ""]

\* the calls of the exported functions
Calls ==
  {[BaseCall("install") EXCEPT !.pureLockfile = b] : b \in BOOLEAN}
  \cup {[BaseCall("add") EXCEPT !.deps = d, !.type = t] :
          d \in DepLists, t \in DepTypes}
  \cup {[BaseCall("upgrade") EXCEPT !.deps = d, !.args = a] :
          d \in DepLists, a \in ArgLists}
  \cup {[BaseCall("run") EXCEPT !.script = s, !.args = a] :
          s \in ScriptNames, a \in ArgLists}
  \cup {[BaseCall("runIfExists") EXCEPT !.script = s, !.args = a,
                                        !.scripts = m, !.bins = b] :
          s \in ScriptNames, a \in ArgLists, m \in Scripts,
          b \in SUBSET ScriptNames}
  \cup {[BaseCall("getScript") EXCEPT !.script = s, !.scripts = m,
                                      !.bins = b] :
          s \in ScriptNames, m \in Scripts, b \in SUBSET ScriptNames}
  \cup {[BaseCall("remove") EXCEPT !.args = a] : a \in ArgLists}
  \cup {[BaseCall("cliCommand") EXCEPT !.command = c, !.args = a] :
          c \in {"", "outdated"}, a \in ArgLists}
  \cup {[BaseCall("info") EXCEPT !.args = a] : a \in ArgLists}
  \cup {BaseCall("userAgent")}
  \cup {[BaseCall("globalCli") EXCEPT !.command = c, !.deps = d] :
          c \in {"", "add"}, d \in DepLists}

\* constants.js DEPENDENCY_TYPE_FLAGS_MAP: flag -> dependency type
DEPENDENCY_TYPE_FLAGS_MAP ==
  [dev |-> "devDependencies", peer |-> "peerDependencies",
   optional |-> "optionalDependencies"]

\* yarn.js 17-23
DepTypeToFlag(depType) ==
  LET keys == {k \in DOMAIN DEPENDENCY_TYPE_FLAGS_MAP :
                 DEPENDENCY_TYPE_FLAGS_MAP[k] = depType}
  IN  IF keys = {} THEN <<>> ELSE << <<"--", CHOOSE k \in keys : TRUE>> >>

\* yarn.js 54-60, 84-90, 203-209: `${dep.name}@${dep.version}` or dep.name
DepArg(dep) ==
  IF dep.version # "" THEN <<dep.name, "@", dep.version>> ELSE <<dep.name>>
DepArgs(deps) == [i \in 1..Len(deps) |-> DepArg(deps[i])]

\* a subprocess handed to processes.spawn
Process(command, args, tty, env) ==
  [command |-> command, args |-> args, tty |-> tty, env |-> env,
   status |-> "running"]

\* yarn.js 193: yarnUserAgent.replace(/\n/g, '')
StripNewlines(stdout) == SelectSeq(stdout, LAMBDA t : t # "\n")

\* yarn.js 32: `bolt/${BOLT_VERSION} ${yarnUserAgent}`
BoltUserAgent(yarnUserAgent) ==
  <<"bolt/", "BOLT_VERSION", " ">> \o yarnUserAgent

\* yarn.js 187-191: the subprocess of userAgent
UserAgentProcess ==
  Process("localYarn", << <<"config">>, <<"get">>, <<"user-agent">> >>,
          FALSE, <<>>)

\* the subprocess each wrapper spawns (for install, once the user agent is
\* known)
MainProcess(c, yarnUserAgent) ==
  CASE c.fn = "install" ->
         Process("localYarn",
                 << <<"install">> >> \o
                   (IF c.pureLockfile THEN << <<"--pure-lockfile">> >>
                                      ELSE <<>>),
                 TRUE, BoltUserAgent(yarnUserAgent))
    [] c.fn = "add" ->
         Process("localYarn",
                 << <<"add">> >> \o DepArgs(c.deps) \o
                   (IF c.type # "none" THEN DepTypeToFlag(c.type) ELSE <<>>),
                 TRUE, <<>>)
    [] c.fn = "upgrade" ->
         Process("localYarn",
                 << <<"upgrade">> >> \o DepArgs(c.deps) \o c.args, TRUE, <<>>)
    [] c.fn \in {"run", "runIfExists"} ->
         Process("localYarnRelative",
                 << <<"run">>, <<"-s">>, <<c.script>> >> \o c.args,
                 TRUE, <<>>)
    [] c.fn = "remove" ->
         Process("localYarn", << <<"remove">> >> \o c.args, TRUE, <<>>)
    [] c.fn = "cliCommand" ->
         Process("localYarn", << <<c.command>> >> \o c.args, TRUE, <<>>)
    [] c.fn = "info" ->
         Process("localYarn", << <<"info">> >> \o c.args, TRUE, <<>>)
    [] c.fn = "userAgent" -> UserAgentProcess
    [] c.fn = "globalCli" ->
         Process("yarn",
                 << <<"global">>, <<c.command>> >> \o DepArgs(c.deps),
                 TRUE, <<>>)

\* yarn.js 134-139: the part of getScript before its await
ScriptEntry(c) ==
  IF c.scripts.defined /\ c.script \in DOMAIN c.scripts.entries /\
     c.scripts.entries[c.script] # ""
    THEN Str(c.scripts.entries[c.script])
    ELSE Null

\* yarn.js 133-150: getScript, `bins` being what readdirSafe resolved with
GetScriptBinFirst(c, bins) ==
  IF c.script \in bins THEN Str(c.script) ELSE ScriptEntry(c)

GetScript(c, bins) ==
  IF Truthy(ScriptEntry(c)) THEN ScriptEntry(c)
  ELSE IF c.script \in bins THEN Str(c.script)
  ELSE Null

\* what processes.spawn rejects with when the subprocess fails
ChildProcessError(process) ==
  [kind |-> "rejected", type |-> "ChildProcessError",
   message |-> process.command, value |-> process.args]

\* what a wrapper does when an awaited processes.spawn rejects: no wrapper
\* has a try/catch, so the rejection is the wrapper's
OnSpawnRejectedInstallGoesOn(c, where, failure) ==
  IF where = "uaSpawn"
    THEN [at |-> "spawn", outcome |-> Pending,
          spawn |-> <<MainProcess(c, <<>>)>>]
    ELSE [at |-> "done", outcome |-> failure, spawn |-> <<>>]

OnSpawnRejected(c, where, failure) ==
  [at |-> "done", outcome |-> failure, spawn |-> <<>>]

\* the promise of getScript resolved with v
ScriptResolved(v) == Resolved(IF v = Null THEN <<>> ELSE <<v.value>>)

\* what a wrapper resolves with once its subprocess has ended
ReturnValue(c, stdout) ==
  CASE c.fn = "userAgent" -> StripNewlines(stdout)
    [] c.fn = "cliCommand" -> <<"stdout">> \o stdout
    [] OTHER -> <<>>

\* a wrapper is called and runs up to its first await
YarnCall ==
  /\ at = "idle"
  /\ \E c \in Calls :
       /\ call' = c
       /\ IF c.fn = "globalCli"
            THEN IF c.deps = <<>>
                   THEN /\ at' = "done"
                        /\ outcome' = Resolved(<<>>)
                        /\ spawned' = spawned
                   ELSE /\ at' = "spawn"
                        /\ outcome' = outcome
                        /\ spawned' = Append(spawned, MainProcess(c, <<>>))
            ELSE IF c.fn \in {"getScript", "runIfExists"}
            THEN \* yarn.js 133-139: readdirSafe is awaited if (!result)
                 IF Truthy(ScriptEntry(c))
                   THEN /\ at' = IF c.fn = "getScript"
                                   THEN "done"
                                   ELSE IF Truthy(GetScript(c, c.bins))
                                     THEN "projectInit" ELSE "done"
                        /\ outcome' = IF c.fn = "getScript"
                                        THEN ScriptResolved(GetScript(c, c.bins))
                                        ELSE IF Truthy(GetScript(c, c.bins))
                                          THEN outcome ELSE Resolved(<<>>)
                        /\ spawned' = spawned
                   ELSE /\ at' = "readdir"
                        /\ outcome' = outcome
                        /\ spawned' = spawned
            ELSE /\ at' = IF c.fn = "run" THEN "projectInit" ELSE "binPath"
                 /\ outcome' = outcome
                 /\ spawned' = spawned
  /\ UNCHANGED processVars

\* fs.readdirSafe(pkg.nodeModulesBin) resolves with the names in the
\* directory, getScript returns and runIfExists (yarn.js 127-130) calls run
\* or returns
ReaddirResolves ==
  /\ at = "readdir"
  /\ IF call.fn = "getScript"
       THEN /\ at' = "done"
            /\ outcome' = ScriptResolved(GetScript(call, call.bins))
       ELSE IF Truthy(GetScript(call, call.bins))
       THEN at' = "projectInit" /\ outcome' = outcome
       ELSE at' = "done" /\ outcome' = Resolved(<<>>)
  /\ UNCHANGED <<call, spawned>>
  /\ UNCHANGED processVars

\* Project.init(pkg.dir) of run resolves (yarn.js 105-106)
ProjectInitResolves ==
  /\ at = "projectInit"
  /\ at' = "binPath"
  /\ UNCHANGED <<call, spawned, outcome>>
  /\ UNCHANGED processVars

ProjectInitFails ==
  /\ at = "projectInit"
  /\ at' = "done"
  /\ outcome' = Error("Project.init")
  /\ UNCHANGED <<call, spawned>>
  /\ UNCHANGED processVars

\* getLocalBinPath() resolves: the wrapper runs up to its next await
BinPathResolves ==
  /\ at \in {"binPath", "uaBinPath"}
  /\ IF at = "binPath" /\ call.fn = "install"
       THEN \* yarn.js 31: userAgent() is called and awaits getLocalBinPath
            /\ at' = "uaBinPath"
            /\ UNCHANGED <<spawned, outcome>>
       ELSE IF at = "uaBinPath"
       THEN /\ at' = "uaSpawn"
            /\ spawned' = Append(spawned, UserAgentProcess)
            /\ outcome' = outcome
       ELSE IF call.fn = "add" /\ call.deps = <<>>
       THEN \* yarn.js 53
            /\ at' = "done"
            /\ outcome' = Resolved(<<>>)
            /\ spawned' = spawned
       ELSE /\ at' = "spawn"
            /\ spawned' = Append(spawned, MainProcess(call, <<>>))
            /\ outcome' = outcome
  /\ UNCHANGED call
  /\ UNCHANGED processVars

BinPathFails ==
  /\ at \in {"binPath", "uaBinPath"}
  /\ at' = "done"
  /\ outcome' = Error("projectBinPath")
  /\ UNCHANGED <<call, spawned>>
  /\ UNCHANGED processVars

\* the subprocess ends with status 0: processes.spawn resolves
SpawnResolves ==
  /\ at \in {"uaSpawn", "spawn"}
  /\ \E stdout \in Stdouts :
       LET ended == [spawned EXCEPT ![Len(spawned)].status = "ok"]
       IN  IF at = "uaSpawn"
             THEN \* yarn.js 31-34: install spawns with the user agent
                  /\ at' = "spawn"
                  /\ spawned' =
                       Append(ended, MainProcess(call, StripNewlines(stdout)))
                  /\ outcome' = outcome
             ELSE /\ at' = "done"
                  /\ spawned' = ended
                  /\ outcome' = Resolved(ReturnValue(call, stdout))
  /\ UNCHANGED call
  /\ UNCHANGED processVars

\* the subprocess fails: processes.spawn rejects
SpawnFails ==
  /\ at \in {"uaSpawn", "spawn"}
  /\ LET failed == [spawned EXCEPT ![Len(spawned)].status = "failed"]
         r == OnSpawnRejected(call, at,
                              ChildProcessError(spawned[Len(spawned)]))
     IN  /\ at' = r.at
         /\ outcome' = r.outcome
         /\ spawned' = failed \o r.spawn
  /\ UNCHANGED call
  /\ UNCHANGED processVars

YarnInit ==
  /\ Workspace([p \in Pkgs |-> 1], "plain")
  /\ ProcessIdle
  /\ YarnIdle

YarnNext ==
  \/ YarnCall
  \/ ReaddirResolves
  \/ ProjectInitResolves
  \/ ProjectInitFails
  \/ BinPathResolves
  \/ BinPathFails
  \/ SpawnResolves
  \/ SpawnFails

YarnSpec == YarnInit /\ [][YarnNext]_vars


\* ----------------------------------------------------------------- sanity
TypeOK ==
  /\ phase \in {"idle", "query", "classified", "tasks", "ok", "failed",
                "exited"}
  /\ cmd \in {"none", "version", "publish"}
  /\ \A p \in Pkgs :
       pc[p] \in {"none", "start", "renamed", "writing", "written", "tag",
                  "flowbin", "self", "npm", "done", "failed"}
  /\ Range(handlers) \subseteq tasks

\* the task of p holds a registered guard
Guarded(p) == p \in Range(handlers)

\* ------------------------------------------------------------------ C1
\* C1: after the process exits, every package whose manifest had been
\* renamed to the backup path by a task that had not yet reached its
\* cleanup/unregister has its pre-mutation manifest at the manifest path.
C1_CrashRecovery ==
  phase = "exited" =>
    \A p \in Pkgs :
      atExit[p] \in {"renamed", "guarded"} => manifest[p] = orig[p]

\* ------------------------------------------------------------------ C2
\* C2: when the version bump of a package has completed, its handler is
\* unregistered, its backup file is gone and its manifest is the
\* pre-mutation document with only the version changed.
C2_VersionBumpSuccess ==
  \A p \in Pkgs :
    (cmd = "version" /\ pc[p] = "done") =>
      /\ ~Guarded(p)
      /\ backup[p] = NoFile
      /\ manifest[p] = [orig[p] EXCEPT !.version = manifest[p].version]
      /\ manifest[p].version # orig[p].version

C4_RestoreBeforeSurfacing ==
  phase = "failed" =>
    \A p \in tasks :
      (pc[p] = "failed" /\ orig[p] # NoFile) =>
        (manifest[p] = orig[p] /\ backup[p] = NoFile)

\* ------------------------------------------------------------------ C5
\* C5 (as stated): for every package this process has renamed, exactly one
\* of the manifest path and the backup path holds a valid manifest.
C5_ExactlyOne ==
  \A p \in Pkgs :
    orig[p] # NoFile => (IsManifest(manifest[p]) # IsManifest(backup[p]))

\* C5 (amended): in every state, for every package, at least one of the
\* manifest path and the backup path holds a valid manifest.
C5_AtLeastOne ==
  \A p \in Pkgs : IsManifest(manifest[p]) \/ IsManifest(backup[p])

C5_Witness ==
  \E p, q \in Pkgs :
    /\ p # q
    /\ phase = "tasks"
    /\ pc[p] = "failed" /\ manifest[p] = Partial /\ IsManifest(backup[p])
    /\ pc[q] = "renamed" /\ manifest[q] = NoFile /\ IsManifest(backup[q])

\* ------------------------------------------------------------------ C6
\* C6: a task that starts while the backup path of its package exists fails
\* without renaming, and the existing backup stays as it is.
C6_LockConflict ==
  [][\A p \in Pkgs :
       (phase = "tasks" /\ pc[p] = "start" /\ backup[p] # NoFile
        /\ phase' = "tasks") =>
         (backup'[p] = backup[p] /\ pc'[p] \in {"start", "failed"})]_vars

VersionNumber(v) == v[1] * 10000 + v[2] * 100 + v[3]

C8_Classification ==
  phase = "classified" =>
    /\ \A p \in publicPackages :
         LET local == VersionNumber(config[p].version)
             isPublished == info[p].published
             published == IF isPublished THEN VersionNumber(info[p].version)
                                         ELSE 0
             lines == {l \in log : l[3] = p}
         IN  /\ p \in toPublish <=> (~isPublished \/ local > published)
             /\ (isPublished /\ local < published) =>
                  lines = {<<"warn", "willNotPublishPackage", p>>}
             /\ (isPublished /\ local = published) => lines = {}
    /\ toPublish \subseteq publicPackages
    /\ \A l \in log : l[1] # "error"

C8_Witness ==
  /\ phase = "classified"
  /\ \E p, q \in publicPackages :
       /\ info[p].published
       /\ VersionNumber(config[p].version) < VersionNumber(info[p].version)
       /\ p \notin toPublish
       /\ <<"warn", "willNotPublishPackage", p>> \in log
       /\ info[q].published
       /\ VersionNumber(config[q].version) > VersionNumber(info[q].version)
       /\ q \in toPublish

\* ------------------------------------------------------------------ C9
\* C9: the version a version-bump task has written is M.m.(p + size), where
\* M.m.p is the package's version before and size is the number of loaded
\* packages that share its name.
C9_BumpArithmetic ==
  \A p \in Pkgs :
    (cmd = "version" /\ pc[p] \in {"written", "done"}) =>
      LET before == orig[p].version
          size == Cardinality({q \in Pkgs : /\ config[q] # NoConfig
                                            /\ config[q].name = orig[p].name})
      IN  manifest[p].version = <<before[1], before[2], before[3] + size>>

C9_Witness ==
  \E p \in Pkgs :
    /\ cmd = "version"
    /\ pc[p] = "done"
    /\ orig[p].version = <<1, 2, 3>>
    /\ manifest[p].version = <<1, 2, 3 + NumPkgs>>

\* ----------------------------------------------------------------- C10
\* C10: when the classification found nothing to publish, publish does not
\* reject, its result list is empty, npm.publish is not invoked and no
\* manifest is renamed.
C10_NoOpPublish ==
  /\ [](( cmd = "publish" /\ phase \in {"tasks", "ok"} /\ toPublish = {}) =>
          /\ publishedPackages = <<>>
          /\ npmCalls = {}
          /\ tasks = {}
          /\ \A p \in Pkgs : orig[p] = NoFile /\ manifest[p] = config[p])
  /\ [][(cmd = "publish" /\ phase = "tasks" /\ toPublish = {}) =>
          phase' \in {"tasks", "ok", "exited"}]_vars

C10_Witness ==
  /\ cmd = "publish"
  /\ phase = "ok"
  /\ toPublish = {}
  /\ publicPackages # {}
  /\ publishedPackages = <<>>

\* ------------------------------------------------------------------ C11
\* C11: whenever an operation of the publish batch has raised (the registry
\* query, the pre-publish hook, the backup rename, a dependency rewrite,
\* npm.publish or cleanup), publish rejects with the single BoltError
\* 'Failed to publish': no other error escapes, and no result list is
\* returned.
C11_PublishFailed ==
  cmd = "publish" =>
    /\ phase = "failed" => outcome = BoltError("Failed to publish")
    /\ (AnyFailed /\ phase # "tasks") => phase = "failed"
    /\ outcome.kind = "rejected" =>
         (outcome.type = "BoltError" /\ outcome.value = <<>>)
    /\ outcome.kind = "resolved" => ~AnyFailed

C11_Witness ==
  /\ cmd = "publish" /\ phase = "failed"
  /\ publishedPackages # <<>>
  /\ \E p \in tasks : pc[p] = "failed" /\ p \in npmCalls
  /\ outcome = BoltError("Failed to publish")

\* ------------------------------------------------------------------ C12
\* C12: the batch settles (returns or raises) only once every task of it
\* has settled; a task that failed stops no other task, so that when the
\* batch has settled every task is done or failed and every publish task
\* that ran to completion has its entry in the result list.
C12_RunnerIsolation ==
  phase \in {"ok", "failed"} =>
    /\ \A p \in tasks : pc[p] \in {"done", "failed"}
    /\ cmd = "publish" =>
         /\ Len(publishedPackages) =
              Cardinality({p \in tasks : pc[p] = "done"})
         /\ \A p \in tasks :
              pc[p] = "done" =>
                \E i \in 1..Len(publishedPackages) :
                  /\ publishedPackages[i].name = config[p].name
                  /\ publishedPackages[i].newVersion = config[p].version
    /\ cmd = "version" =>
         \A p \in tasks :
           pc[p] = "done" => (IsManifest(manifest[p]) /\ manifest[p] = config[p])

C12_Witness ==
  /\ cmd = "publish" /\ phase = "failed"
  /\ \E p, q \in tasks :
       /\ pc[p] = "failed" /\ orig[p] = NoFile
       /\ pc[q] = "done"
       /\ Len(publishedPackages) = 1
       /\ publishedPackages[1].name = config[q].name

\* ------------------------------------------------------------------ C13
\* C13: a package whose manifest is marked private is never among the
\* packages a command works on (all public packages, or the single package
\* of cwd): it is not queried on the registry, gets no task, is not passed
\* to npm.publish, and no step of the process changes its manifest path or
\* its backup path.
C13_PrivateInv ==
  \A p \in Pkgs :
    (config[p] # NoConfig /\ config[p].private) =>
      /\ p \notin publicPackages
      /\ p \notin tasks
      /\ p \notin toPublish
      /\ info[p] = NoInfo
      /\ p \notin npmCalls
      /\ pc[p] = "none"
      /\ ~Guarded(p)

C13_PrivateStep ==
  \A p \in Pkgs :
    (IsManifest(manifest[p]) /\ manifest[p].private) =>
      (manifest'[p] = manifest[p] /\ backup'[p] = backup[p])

C13_PrivateUntouched == []C13_PrivateInv /\ [][C13_PrivateStep]_vars

C13_Witness ==
  \E p, q \in Pkgs :
    /\ config[p] # NoConfig /\ config[p].private
    /\ manifest[p] = config[p] /\ backup[p] = NoFile
    /\ cmd = "publish" /\ phase = "ok"
    /\ pc[q] = "done" /\ q \in npmCalls
    /\ config[p].name \in DOMAIN config[q].dependencies

\* ------------------------------------------------------------------ C15
\* C15: in publish the steps of one package happen in the order backup
\* rename, handler registration, rewrite of every internal link's range in
\* 'dependencies' and of the typing peer dependencies, npm.publish,
\* cleanup, whatever the other packages' tasks do in between: npm.publish
\* is invoked only once all rewrites are in the manifest and while the
\* backup is there, and the task's cleanup runs only in the step in which
\* npm.publish has returned.
StepRank(step) ==
  CASE step = "start" -> 0
    [] step = "renamed" -> 1
    [] step = "tag" -> 2
    [] step = "flowbin" -> 3
    [] step = "self" -> 4
    [] step = "npm" -> 5
    [] step = "done" -> 6
    [] OTHER -> 7

RewritesDone(p) ==
  /\ \A n \in Range(Links(p)) :
       /\ n \in DOMAIN config[p].dependencies
       /\ \E dep \in Declarers(n) :
            config[p].dependencies[n] = <<config[dep].flowVersion>>
  /\ FlowBinVersion(config[p].flowVersion) # <<>> =>
       /\ <<"flow-bin">> \in DOMAIN config[p].peerDependencies
       /\ config[p].peerDependencies[<<"flow-bin">>] =
            FlowBinVersion(config[p].flowVersion)
  /\ SelfName(config[p].name) # <<>> =>
       /\ SelfName(config[p].name) \in DOMAIN config[p].peerDependencies
       /\ config[p].peerDependencies[SelfName(config[p].name)] =
            SelfVersion(config[p].version)
  /\ (Links(p) # <<>> \/ AwaitAfterTagging(p) # "npm") =>
       manifest[p] = config[p]

C15_OrderInv ==
  (cmd = "publish" /\ phase = "tasks") =>
    \A p \in tasks :
      /\ Guarded(p) => (orig[p] # NoFile /\ StepRank(pc[p]) >= 2)
      /\ pc[p] \in {"tag", "flowbin", "self", "npm"} =>
           (Guarded(p) /\ backup[p] = orig[p] /\ backup[p] # NoFile)
      /\ p \in npmCalls <=> pc[p] = "npm" \/
                            (pc[p] = "done") \/
                            (pc[p] = "failed" /\ p \in npmCalls)
      /\ pc[p] = "npm" => RewritesDone(p)
      /\ pc[p] = "start" => orig[p] = NoFile

C15_OrderStep ==
  (cmd = "publish" /\ phase = "tasks" /\ phase' = "tasks") =>
    \A p \in tasks :
      /\ (pc'[p] # pc[p] /\ pc'[p] # "failed") =>
           StepRank(pc'[p]) > StepRank(pc[p])
      /\ (pc[p] = "start" /\ pc'[p] # pc[p] /\ pc'[p] # "failed") =>
           pc'[p] = "renamed"
      /\ (pc[p] = "renamed" /\ pc'[p] # pc[p]) => Guarded(p)'
      /\ (orig[p] # NoFile /\ backup[p] # NoFile /\ backup'[p] = NoFile) =>
           /\ pc[p] = "npm" /\ pc'[p] = "done"
           /\ Len(publishedPackages') = Len(publishedPackages) + 1
      /\ pc'[p] = "done" => pc[p] \in {"npm", "done"}

C15_StepOrder == []C15_OrderInv /\ [][C15_OrderStep]_vars

C15_Witness ==
  \E p, q \in Pkgs :
    /\ cmd = "publish" /\ phase = "tasks"
    /\ pc[p] = "npm" /\ pc[q] \in {"renamed", "tag"}
    /\ Links(p) # <<>>
    /\ FlowBinVersion(config[p].flowVersion) # <<>>
    /\ SelfName(config[p].name) # <<>>
    /\ RewritesDone(p)
    /\ backup[p] = orig[p]

\* ------------------------------------------------------------------ C16
\* C16: a step of the version task of package P changes only P's manifest
\* path and backup path; the files of every other package (those that
\* depend on P included) stay as they are.  Hence the files a successful
\* version command leaves are the same for every interleaving: each bumped
\* package has its pre-mutation manifest with the version bumped at the
\* manifest path and the pre-mutation manifest at the backup path, every
\* other package its manifest as loaded.
C16_FrameStep ==
  (cmd = "version" /\ phase = "tasks" /\ phase' = "tasks") =>
    \A q \in Pkgs :
      pc'[q] = pc[q] => (manifest'[q] = manifest[q] /\ backup'[q] = backup[q])

C16_FinalFiles ==
  (cmd = "version" /\ phase = "ok") =>
    \A p \in Pkgs :
      IF p \in tasks
        THEN /\ manifest[p] =
                  [orig[p] EXCEPT
                     !.version = BumpedVersion(orig[p].version, Size(p))]
             /\ backup[p] = orig[p]
        ELSE /\ orig[p] = NoFile
             /\ config[p] # NoConfig => manifest[p] = config[p]

C16_Frame == []C16_FinalFiles /\ [][C16_FrameStep]_vars

C16_Witness ==
  \E p, q \in Pkgs :
    /\ p # q
    /\ cmd = "version" /\ phase = "ok"
    /\ pc[p] = "done" /\ pc[q] = "done"
    /\ config[p].name \in DOMAIN manifest[q].dependencies
    /\ manifest[q].dependencies[config[p].name] = "^1.0.0"
    /\ manifest[p].version # orig[p].version

\* ------------------------------------------------------------------ C17
\* C17: when npm.publish is invoked for a package, its manifest has the
\* peer dependency 'flow-bin' (derived from its flowVersion) and the peer
\* dependency on its implementation package ('^<major>.x') if its name
\* starts with '@flowtyped', and has neither of them otherwise.  (A
\* type-declarations package without flowVersion has no range to derive, and
\* is not asked to have a 'flow-bin' entry.)
C17_TypingPeers ==
  \A p \in Pkgs :
    (cmd = "publish" /\ phase = "tasks" /\ pc[p] = "npm") =>
      IF StartsWithFlowtyped(config[p].name)
        THEN /\ config[p].flowVersion # "none" =>
                  /\ <<"flow-bin">> \in DOMAIN config[p].peerDependencies
                  /\ config[p].peerDependencies[<<"flow-bin">>] =
                       FlowBinVersion(config[p].flowVersion)
             /\ SelfName(config[p].name) \in DOMAIN config[p].peerDependencies
             /\ config[p].peerDependencies[SelfName(config[p].name)] =
                  SelfVersion(config[p].version)
        ELSE config[p].peerDependencies = NoDeps

\* ------------------------------------------------------------------ C18
\* C18: once the version task of P has completed, P has no handler
\* registered and no later step of the process (a sibling's step or
\* failure, the command rejecting, the process exiting normally or on a
\* signal) changes P's manifest: after the exit it still holds the
\* pre-mutation manifest with the bumped version.
C18_DoneInv ==
  \A p \in Pkgs :
    /\ (cmd = "version" /\ pc[p] = "done") =>
         /\ ~Guarded(p)
         /\ IsManifest(manifest[p])
         /\ manifest[p].version = BumpedVersion(orig[p].version, Size(p))
    /\ (cmd = "version" /\ phase = "exited" /\ atExit[p] = "done") =>
         /\ IsManifest(manifest[p])
         /\ manifest[p] = [orig[p] EXCEPT !.version = manifest[p].version]
         /\ SemverGt(manifest[p].version, orig[p].version)

C18_DoneStep ==
  \A p \in Pkgs :
    (cmd = "version" /\ pc[p] = "done") => manifest'[p] = manifest[p]

C18_BumpStable == []C18_DoneInv /\ [][C18_DoneStep]_vars

C18_Witness ==
  \E p, q \in Pkgs :
    /\ cmd = "version" /\ phase = "exited"
    /\ atExit[p] = "done" /\ atExit[q] = "guarded"
    /\ manifest[q] = orig[q]
    /\ SemverGt(manifest[p].version, orig[p].version)

\* ------------------------------------------------------------------ C19
\* C19: at every suspension point of version and publish, every package
\* with a registered handler has its backup file, and every package whose
\* task has renamed the manifest to the backup and has not completed has a
\* registered handler.
C19_HandlerIffBackup ==
  \A p \in Pkgs :
    /\ Guarded(p) => backup[p] # NoFile
    /\ (p \in tasks /\ pc[p] # "done" /\ orig[p] # NoFile /\
        backup[p] = orig[p]) => Guarded(p)

\* ------------------------------------------------------------------ C14
\* C14: in every yarn wrapper, a subprocess that failed is the last one the
\* wrapper spawned, and the wrapper has rejected with that subprocess's
\* failure; a wrapper that resolved had no failed subprocess.  In
\* particular install spawns 'yarn install' only after the user-agent
\* query has succeeded.
C14_SpawnFailurePropagates ==
  /\ \A i \in 1..Len(spawned) :
       /\ spawned[i].status = "failed" =>
            /\ i = Len(spawned)
            /\ at = "done"
            /\ outcome = ChildProcessError(spawned[i])
       /\ i < Len(spawned) => spawned[i].status = "ok"
       /\ (call.fn = "install" /\ spawned[i].args[1] = <<"install">>) =>
            /\ i = 2
            /\ spawned[1].args = UserAgentProcess.args
            /\ spawned[1].status = "ok"
  /\ outcome.kind = "resolved" =>
       \A i \in 1..Len(spawned) : spawned[i].status = "ok"

C14_Witness ==
  /\ call.fn = "install"
  /\ at = "done"
  /\ Len(spawned) = 1
  /\ spawned[1].args = UserAgentProcess.args
  /\ spawned[1].status = "failed"
  /\ outcome = ChildProcessError(UserAgentProcess)

\* ------------------------------------------------------------------ C20
\* C20: runIfExists(pkg, script) spawns a subprocess only if the script has
\* a non-empty entry in the manifest's scripts or is a file name in
\* node_modules/.bin, and then it is `yarn run -s <script> <args>`; when
\* neither is the case it spawns nothing and resolves.  When one of them is
\* the case and neither Project.init nor projectBinPath has failed, the
\* subprocess is spawned.  getScript resolves with the manifest entry when
\* there is a non-empty one, else with the script's name when it is in
\* node_modules/.bin, else with null.
HasScriptEntry(c) ==
  /\ c.scripts.defined
  /\ c.script \in DOMAIN c.scripts.entries
  /\ c.scripts.entries[c.script] # ""

C20_RunIfExists ==
  /\ call.fn = "runIfExists" =>
       LET exists == HasScriptEntry(call) \/ call.script \in call.bins
       IN  /\ spawned # <<>> =>
                /\ exists
                /\ Len(spawned) = 1
                /\ spawned[1].command = "localYarnRelative"
                /\ spawned[1].args =
                     << <<"run">>, <<"-s">>, <<call.script>> >> \o call.args
           /\ (at = "done" /\ ~exists) =>
                (spawned = <<>> /\ outcome = Resolved(<<>>))
           /\ (at = "done" /\ exists /\ outcome.type # "Error") =>
                spawned # <<>>
           /\ (at = "readdir") => ~HasScriptEntry(call)
  /\ (call.fn = "getScript" /\ at = "done") =>
       outcome =
         Resolved(IF HasScriptEntry(call)
                    THEN <<call.scripts.entries[call.script]>>
                  ELSE IF call.script \in call.bins THEN <<call.script>>
                  ELSE <<>>)

C20_Witness ==
  /\ call.fn = "runIfExists"
  /\ at = "done"
  /\ ~HasScriptEntry(call)
  /\ call.scripts.defined /\ call.script \in DOMAIN call.scripts.entries
  /\ call.script \in call.bins
  /\ Len(spawned) = 1
  /\ spawned[1].args = << <<"run">>, <<"-s">>, <<call.script>>, <<"--flag">> >>
  /\ spawned[1].status = "ok"
  /\ outcome = Resolved(<<>>)

====
